---- MODULE Spec2Model ----
(***************************************************************************)
(* BlockingQueue<T> of cybertron::base: a mutex-protected, capacity        *)
(* bounded double-ended queue with two condition variables.  The           *)
(* repository holds two drafts of the class:                               *)
(*   "part_001"       src/unnamed/part_001  (push_back, pop_front, close)  *)
(*   "blocking_queue" src/src/base/blocking_queue.hpp (PushBack, ...)      *)
(* The variable draft says which of the two a behaviour runs.              *)
(*                                                                         *)
(* A call is a sequence of steps of its thread: the call itself, then its  *)
(* critical section up to its return or up to its wait on a condition      *)
(* variable, and after a wake-up the critical section again.  A critical   *)
(* section takes the mutex, runs and gives the mutex back in one step, so  *)
(* mutex names an owner only where a critical section never ends.          *)
(*                                                                         *)
(* blocking_queue.hpp keeps the result of wait_for(lock, d, pred) in a     *)
(* std::cv_status named is_timeout and fails when it equals timeout; the   *)
(* model reads is_timeout == timeout as "the wait ended with the predicate *)
(* false", the meaning part_001 gives to !is_woken_up.                     *)
(* blocking_queue.hpp's PopBack declares no lock: its steps run without    *)
(* the mutex.                                                              *)
(*                                                                         *)
(* front(), back(), pop_front() and pop_back() of an empty std::deque are  *)
(* undefined: the step delivers any element, sets ub, and the behaviour    *)
(* ends there.  push_front / PushFront end without a return statement: the *)
(* bool the caller sees is any value.                                      *)
(*                                                                         *)
(* Singleton<T> of src/src/base/singleton.hpp has its own variables and    *)
(* its own specification, SingletonSpec; the queue's steps leave it alone. *)
(***************************************************************************)
EXTENDS Integers, Sequences, FiniteSets, TLC

\* Bounds of the model.
NumThreads == 2
MaxVal == 2
MaxCap == 2
MaxLen == 2

Threads == 1..NumThreads
Values == 1..MaxVal
Drafts == {"part_001", "blocking_queue"}
\* timeout argument: 0 waits without limit, 1 stands for any nonzero value
Timeouts == {0, 1}
PushOps == {"push_back", "push_front"}
PopOps == {"pop_front", "pop_back"}
\* the operations that read the queue and change nothing
ReadOps == {"size", "capacity", "empty", "full", "front", "back"}

VARIABLES
    draft,           \* which draft of the class runs
    push_block,      \* const bool _push_block
    capacity_limit,  \* const size_t _capacity_limit
    active,          \* bool _active
    deque,           \* std::deque<T> _dequeue, front first
    mutex,           \* std::mutex _mutex: 0 when free, else the owner
    producer,        \* threads suspended on _producer
    consumer,        \* threads suspended on _consumer
    pc,              \* position of each thread
    call,            \* the call each thread is in, or has last returned from
    ret,             \* the bool the last call of each thread returned
    item,            \* the element the last pop of each thread delivered
    dropped,         \* how many elements the last push of each thread evicted
    num,             \* the size_t the last size()/capacity() of each thread returned
    closeDone,       \* a close() call has returned
    ub               \* a front()/back()/pop on an empty deque has been executed

vars == <<draft, push_block, capacity_limit, active, deque, mutex, producer,
          consumer, pc, call, ret, item, dropped, num, closeDone, ub>>

\* op: the function called; elem, timeout: its arguments; expired: the timer
\* of its wait_for has run out; afterClose: it was called after a close()
\* had returned
NoCall == [op |-> "none", elem |-> 0, timeout |-> 0, expired |-> FALSE,
           afterClose |-> FALSE]

Calls ==
    [op : PushOps, elem : Values, timeout : Timeouts, expired : {FALSE},
     afterClose : {FALSE}]
    \cup
    [op : PopOps, elem : {0}, timeout : Timeouts, expired : {FALSE},
     afterClose : {FALSE}]
    \cup
    [op : {"clear", "close"} \cup ReadOps, elem : {0}, timeout : {0},
     expired : {FALSE}, afterClose : {FALSE}]

\* the two overloads of a push: const T& and T&&
Refs == {"copy", "move"}

\* what is kept of a call once it has returned
Returned(c) == [c EXCEPT !.elem = 0, !.timeout = 0]

\* blocking_queue.hpp PopBack has no std::unique_lock; part_001 capacity()
\* has no std::lock_guard
NoLock(c) ==
    \/ draft = "blocking_queue" /\ c.op = "pop_back"
    \/ draft = "part_001" /\ c.op = "capacity"

\* position of a thread whose wait ends: it has the mutex to take again
WakePc(u) == IF NoLock(call[u]) THEN "unlocked" ELSE "notified"

\* a push predicate that lets a push through at the limit
PushPredicateAtLimit ==
    (~active) \/ (capacity_limit = 0)
        \/ (capacity_limit /= 0 /\ Len(deque) <= capacity_limit)

\* the predicate the pushes wait on
PushPredicate ==
    (~active) \/ (capacity_limit = 0)
        \/ (capacity_limit /= 0 /\ Len(deque) < capacity_limit)

\* the predicate the pops wait on
PopPredicate(c) ==
    IF draft = "blocking_queue" /\ c.timeout /= 0
    THEN (~active) \/ (deque = <<>>)
    ELSE (~active) \/ (deque /= <<>>)

Front(d) == Head(d)
Back(d) == d[Len(d)]
PopFront(d) == Tail(d)
PopBack(d) == SubSeq(d, 1, Len(d) - 1)

\* an eviction for push_back that removes at the back
RECURSIVE EvictFrontWrongEnd(_)
EvictFrontWrongEnd(d) ==
    IF capacity_limit /= 0 /\ Len(d) >= capacity_limit
    THEN EvictFrontWrongEnd(PopBack(d))
    ELSE d

\* while (capacity_limit && size() >= capacity_limit) pop_front();
RECURSIVE EvictFront(_)
EvictFront(d) ==
    IF capacity_limit /= 0 /\ Len(d) >= capacity_limit
    THEN EvictFront(PopFront(d))
    ELSE d

\* while (capacity_limit && size() >= capacity_limit) pop_back();
RECURSIVE EvictBack(_)
EvictBack(d) ==
    IF capacity_limit /= 0 /\ Len(d) >= capacity_limit
    THEN EvictBack(PopBack(d))
    ELSE d

\* if (capacity_limit && size() >= capacity_limit) pop_back();
EvictBackOnce(d) ==
    IF capacity_limit /= 0 /\ Len(d) >= capacity_limit
    THEN PopBack(d)
    ELSE d

\* the buffer after the non-blocking branch of the overload ref
Room(c, ref, d) ==
    IF push_block THEN d
    ELSE IF c.op = "push_back" THEN EvictFront(d)
    ELSE IF draft = "blocking_queue" /\ ref = "move" THEN EvictBackOnce(d)
    ELSE EvictBack(d)

\* the buffer after the non-blocking branch and the insertion of c.elem
Inserted(c, ref, d) ==
    IF c.op = "push_back" THEN Append(Room(c, ref, d), c.elem)
    ELSE <<c.elem>> \o Room(c, ref, d)

\* a push suspends: blocking mode, predicate false, timer not run out
PushWaits(c) == push_block /\ ~PushPredicate /\ ~c.expired

\* a push that fails although its wait ran out with the predicate false
PushFailsOnCloseOnly(c) == push_block /\ ~active

\* if ((!_active) || (!is_woken_up)) return false;  is_woken_up is the
\* value of the predicate when the wait ended
PushFails(c) == push_block /\ ((~active) \/ ~PushPredicate)

\* a pop suspends: predicate false, timer not run out
PopWaits(c) == ~PopPredicate(c) /\ ~c.expired

\* !is_woken_up: the wait_for of a pop ran out with its predicate false
PopTimedOut(c) == ~PopPredicate(c) /\ c.expired

\* what a push returns after inserting: push_back returns true, push_front
\* flows off the end of a function that returns bool
PushReturns(c) == IF c.op = "push_back" THEN {TRUE} ELSE BOOLEAN

\* notify_one on a set of waiters: the sets of threads it may wake
NotifyOne(ws) == IF ws = {} THEN {{}} ELSE {{w} : w \in ws}

\* pushes that have been called and have not yet inserted or failed
InFlightPushes == {u \in Threads : pc[u] /= "idle" /\ call[u].op \in PushOps}

\* a thread at the start of its critical section with the mutex free
AtLock(t) == pc[t] \in {"entry", "notified"} /\ mutex = 0

\* Singleton<T> of singleton.hpp, for one type T
VARIABLES
    instance_,       \* static T* instance_: 0 is nullptr, else the object's number
    init_flag_,      \* static std::once_flag init_flag_
    objects,         \* the T objects built by new, in order: the argument of each
    deleted,         \* the objects delete has been applied to, in order
    handlers,        \* how many times destroy is registered with std::atexit
    process,         \* "running", "exiting" / "destroying" (in std::exit), "exited"
    spc,             \* position of each thread in get_instance
    sarg,            \* the argument of the get_instance call of each thread
    sref,            \* the object the last get_instance of each thread returned
    sub              \* *instance_ has been evaluated with instance_ == nullptr

svars == <<instance_, init_flag_, objects, deleted, handlers, process, spc,
           sarg, sref, sub>>

\* the state of Singleton<T> at program start: instance_ = nullptr and a
\* fresh once_flag (singleton.hpp:64-68)
SingletonInit ==
    /\ instance_ = 0
    /\ init_flag_ = "unset"
    /\ objects = <<>>
    /\ deleted = <<>>
    /\ handlers = 0
    /\ process = "running"
    /\ spc = [t \in Threads |-> "idle"]
    /\ sarg = [t \in Threads |-> 0]
    /\ sref = [t \in Threads |-> 0]
    /\ sub = FALSE

Init ==
    /\ draft \in Drafts
    /\ push_block \in BOOLEAN
    /\ capacity_limit \in 0..MaxCap
    /\ active = TRUE
    /\ deque = <<>>
    /\ mutex = 0
    /\ producer = {}
    /\ consumer = {}
    /\ pc = [t \in Threads |-> "idle"]
    /\ call = [t \in Threads |-> NoCall]
    /\ ret = [t \in Threads |-> FALSE]
    /\ item = [t \in Threads |-> 0]
    /\ dropped = [t \in Threads |-> 0]
    /\ num = [t \in Threads |-> 0]
    /\ closeDone = FALSE
    /\ ub = FALSE
    /\ SingletonInit

\* a thread calls an operation
Call(t) ==
    /\ ~ub
    /\ pc[t] = "idle"
    /\ \E c \in Calls :
        /\ (c.op \in PushOps /\ capacity_limit = 0)
               => Len(deque) + Cardinality(InFlightPushes) < MaxLen
        /\ call' = [call EXCEPT ![t] = [c EXCEPT !.afterClose = closeDone]]
        /\ pc' = [pc EXCEPT ![t] = IF NoLock(c) THEN "unlocked" ELSE "entry"]
    /\ ret' = [ret EXCEPT ![t] = FALSE]
    /\ item' = [item EXCEPT ![t] = 0]
    /\ dropped' = [dropped EXCEPT ![t] = 0]
    /\ num' = [num EXCEPT ![t] = 0]
    /\ UNCHANGED <<draft, push_block, capacity_limit, active, deque, mutex,
                   producer, consumer, closeDone, ub>>
    /\ UNCHANGED svars

\* the timer of a wait_for runs out
Timeout(t) ==
    /\ ~ub
    /\ pc[t] = "waiting"
    /\ call[t].timeout /= 0
    /\ call' = [call EXCEPT ![t].expired = TRUE]
    /\ pc' = [pc EXCEPT ![t] = WakePc(t)]
    /\ producer' = producer \ {t}
    /\ consumer' = consumer \ {t}
    /\ UNCHANGED <<draft, push_block, capacity_limit, active, deque, mutex,
                   ret, item, dropped, num, closeDone, ub>>
    /\ UNCHANGED svars

\* a condition variable may wake a waiter without a notification
SpuriousWakeup(t) ==
    /\ ~ub
    /\ pc[t] = "waiting"
    /\ pc' = [pc EXCEPT ![t] = WakePc(t)]
    /\ producer' = producer \ {t}
    /\ consumer' = consumer \ {t}
    /\ UNCHANGED <<draft, push_block, capacity_limit, active, deque, mutex,
                   call, ret, item, dropped, num, closeDone, ub>>
    /\ UNCHANGED svars

\* push_back / push_front: the critical section
Push(t) ==
    /\ ~ub
    /\ AtLock(t)
    /\ call[t].op \in PushOps
    /\ IF PushWaits(call[t])
       THEN \* the wait gives the mutex back and suspends the thread
            /\ producer' = producer \cup {t}
            /\ pc' = [pc EXCEPT ![t] = "waiting"]
            /\ UNCHANGED <<deque, consumer, call, ret, dropped>>
       ELSE IF PushFails(call[t])
       THEN /\ ret' = [ret EXCEPT ![t] = FALSE]
            /\ pc' = [pc EXCEPT ![t] = "idle"]
            /\ call' = [call EXCEPT ![t] = Returned(call[t])]
            /\ UNCHANGED <<deque, producer, consumer, dropped>>
       ELSE /\ \E ref \in Refs :
                /\ deque' = Inserted(call[t], ref, deque)
                /\ dropped' = [dropped EXCEPT ![t] =
                                  Len(deque) - Len(Room(call[t], ref, deque))]
            /\ \E W \in NotifyOne(consumer) :
                /\ consumer' = consumer \ W
                /\ pc' = [u \in Threads |->
                            IF u = t THEN "idle"
                            ELSE IF u \in W THEN WakePc(u) ELSE pc[u]]
            /\ \E r \in PushReturns(call[t]) : ret' = [ret EXCEPT ![t] = r]
            /\ call' = [call EXCEPT ![t] = Returned(call[t])]
            /\ UNCHANGED producer
    /\ UNCHANGED <<draft, push_block, capacity_limit, active, mutex, item, num,
                   closeDone, ub>>
    /\ UNCHANGED svars

\* what follows the wait of a pop: the check of _active, the read of the
\* boundary element, its removal and the notification of one producer
PopRest(t) ==
    /\ call' = [call EXCEPT ![t] = Returned(call[t])]
    /\ IF ~active
       THEN /\ ret' = [ret EXCEPT ![t] = FALSE]
            /\ pc' = [pc EXCEPT ![t] = "idle"]
            /\ UNCHANGED <<deque, producer, item, ub>>
       ELSE IF deque = <<>>
       THEN \* front() / back() and pop_front() / pop_back() of an empty deque
            /\ ub' = TRUE
            /\ \E v \in Values : item' = [item EXCEPT ![t] = v]
            /\ ret' = [ret EXCEPT ![t] = TRUE]
            /\ pc' = [pc EXCEPT ![t] = "idle"]
            /\ UNCHANGED <<deque, producer>>
       ELSE /\ item' = [item EXCEPT ![t] =
                   IF call[t].op = "pop_front" THEN Front(deque) ELSE Back(deque)]
            /\ deque' = IF call[t].op = "pop_front" THEN PopFront(deque)
                        ELSE PopBack(deque)
            /\ \E W \in (IF push_block THEN NotifyOne(producer) ELSE {{}}) :
                   /\ producer' = producer \ W
                   /\ pc' = [u \in Threads |->
                               IF u = t THEN "idle"
                               ELSE IF u \in W THEN WakePc(u) ELSE pc[u]]
            /\ ret' = [ret EXCEPT ![t] = TRUE]
            /\ UNCHANGED ub

\* pop_front / pop_back: the critical section
Pop(t) ==
    /\ ~ub
    /\ AtLock(t)
    /\ call[t].op \in PopOps
    /\ IF PopWaits(call[t])
       THEN /\ consumer' = consumer \cup {t}
            /\ pc' = [pc EXCEPT ![t] = "waiting"]
            /\ UNCHANGED <<deque, producer, call, ret, item, ub>>
       ELSE IF PopTimedOut(call[t])
       THEN /\ ret' = [ret EXCEPT ![t] = FALSE]
            /\ pc' = [pc EXCEPT ![t] = "idle"]
            /\ call' = [call EXCEPT ![t] = Returned(call[t])]
            /\ UNCHANGED <<deque, producer, consumer, item, ub>>
       ELSE /\ PopRest(t)
            /\ UNCHANGED consumer
    /\ UNCHANGED <<draft, push_block, capacity_limit, active, mutex, dropped,
                   num, closeDone>>
    /\ UNCHANGED svars

\* blocking_queue.hpp PopBack, which never takes the mutex: its wait
PopBackWait(t) ==
    /\ ~ub
    /\ pc[t] = "unlocked"
    /\ call[t].op = "pop_back"
    /\ IF PopWaits(call[t])
       THEN /\ consumer' = consumer \cup {t}
            /\ pc' = [pc EXCEPT ![t] = "waiting"]
            /\ UNCHANGED <<call, ret>>
       ELSE IF PopTimedOut(call[t])
       THEN /\ ret' = [ret EXCEPT ![t] = FALSE]
            /\ pc' = [pc EXCEPT ![t] = "idle"]
            /\ call' = [call EXCEPT ![t] = Returned(call[t])]
            /\ UNCHANGED consumer
       ELSE /\ pc' = [pc EXCEPT ![t] = "unlocked_rest"]
            /\ UNCHANGED <<consumer, call, ret>>
    /\ UNCHANGED <<draft, push_block, capacity_limit, active, deque, mutex,
                   producer, item, dropped, num, closeDone, ub>>
    /\ UNCHANGED svars

\* blocking_queue.hpp PopBack, which never takes the mutex: after its wait
PopBackRest(t) ==
    /\ ~ub
    /\ pc[t] = "unlocked_rest"
    /\ PopRest(t)
    /\ UNCHANGED <<draft, push_block, capacity_limit, active, mutex, consumer,
                   dropped, num, closeDone>>
    /\ UNCHANGED svars

\* the position of a read operation about to run: size, empty, full, front
\* and back take the mutex (std::lock_guard), as does Capacity of
\* blocking_queue.hpp; capacity of part_001 takes nothing
AtRead(t) ==
    IF NoLock(call[t]) THEN pc[t] = "unlocked" ELSE AtLock(t)

\* size(): return _dequeue.size();
Size(t) ==
    /\ ~ub
    /\ AtRead(t)
    /\ call[t].op = "size"
    /\ num' = [num EXCEPT ![t] = Len(deque)]
    /\ pc' = [pc EXCEPT ![t] = "idle"]
    /\ UNCHANGED <<draft, push_block, capacity_limit, active, deque, mutex,
                   producer, consumer, call, ret, item, dropped, closeDone, ub>>
    /\ UNCHANGED svars

\* capacity(): return _capacity_limit;
Capacity(t) ==
    /\ ~ub
    /\ AtRead(t)
    /\ call[t].op = "capacity"
    /\ num' = [num EXCEPT ![t] = capacity_limit]
    /\ pc' = [pc EXCEPT ![t] = "idle"]
    /\ UNCHANGED <<draft, push_block, capacity_limit, active, deque, mutex,
                   producer, consumer, call, ret, item, dropped, closeDone, ub>>
    /\ UNCHANGED svars

\* empty(): return _dequeue.empty();
Empty(t) ==
    /\ ~ub
    /\ AtRead(t)
    /\ call[t].op = "empty"
    /\ ret' = [ret EXCEPT ![t] = (deque = <<>>)]
    /\ pc' = [pc EXCEPT ![t] = "idle"]
    /\ UNCHANGED <<draft, push_block, capacity_limit, active, deque, mutex,
                   producer, consumer, call, item, dropped, num, closeDone, ub>>
    /\ UNCHANGED svars

\* full(): return (_dequeue.size() >= _capacity_limit);
Full(t) ==
    /\ ~ub
    /\ AtRead(t)
    /\ call[t].op = "full"
    /\ ret' = [ret EXCEPT ![t] = (Len(deque) >= capacity_limit)]
    /\ pc' = [pc EXCEPT ![t] = "idle"]
    /\ UNCHANGED <<draft, push_block, capacity_limit, active, deque, mutex,
                   producer, consumer, call, item, dropped, num, closeDone, ub>>
    /\ UNCHANGED svars

\* front() / back(): return _dequeue.front(); return _dequeue.back();
\* std::deque::front and back of an empty deque are undefined
FrontBack(t) ==
    /\ ~ub
    /\ AtRead(t)
    /\ call[t].op \in {"front", "back"}
    /\ IF deque = <<>>
       THEN /\ ub' = TRUE
            /\ \E v \in Values : item' = [item EXCEPT ![t] = v]
       ELSE /\ item' = [item EXCEPT ![t] =
                   IF call[t].op = "front" THEN Front(deque) ELSE Back(deque)]
            /\ UNCHANGED ub
    /\ pc' = [pc EXCEPT ![t] = "idle"]
    /\ UNCHANGED <<draft, push_block, capacity_limit, active, deque, mutex,
                   producer, consumer, call, ret, dropped, num, closeDone>>
    /\ UNCHANGED svars

\* clear(): part_001 loops while the deque is non-empty before it clears it;
\* a loop without side effects that does not end is undefined, so a build
\* may keep it or drop it
Clear(t) ==
    /\ ~ub
    /\ AtLock(t)
    /\ call[t].op = "clear"
    /\ \/ /\ draft = "part_001"
          /\ deque /= <<>>
          /\ pc' = [pc EXCEPT ![t] = "spin"]
          /\ mutex' = t
          /\ UNCHANGED <<deque, call>>
       \/ /\ deque' = <<>>
          /\ pc' = [pc EXCEPT ![t] = "idle"]
          /\ call' = [call EXCEPT ![t] = Returned(call[t])]
          /\ UNCHANGED mutex
    /\ UNCHANGED <<draft, push_block, capacity_limit, active, producer, consumer,
                   ret, item, dropped, num, closeDone, ub>>
    /\ UNCHANGED svars

\* a close that flips _active instead of clearing it
CloseReopens(t) ==
    /\ ~ub
    /\ AtLock(t)
    /\ call[t].op = "close"
    /\ deque' = <<>>
    /\ active' = ~active
    /\ pc' = [pc EXCEPT ![t] = "notify_producer"]
    /\ UNCHANGED <<draft, push_block, capacity_limit, mutex, producer, consumer,
                   call, ret, item, dropped, num, closeDone, ub>>
    /\ UNCHANGED svars

\* close() and the destructor: the critical section
Close(t) ==
    /\ ~ub
    /\ AtLock(t)
    /\ call[t].op = "close"
    /\ deque' = <<>>
    /\ active' = FALSE
    /\ pc' = [pc EXCEPT ![t] = "notify_producer"]
    /\ UNCHANGED <<draft, push_block, capacity_limit, mutex, producer, consumer,
                   call, ret, item, dropped, num, closeDone, ub>>
    /\ UNCHANGED svars

\* close(): _producer.notify_all()
CloseNotifyProducers(t) ==
    /\ ~ub
    /\ pc[t] = "notify_producer"
    /\ producer' = {}
    /\ pc' = [u \in Threads |->
                IF u = t THEN "notify_consumer"
                ELSE IF u \in producer THEN WakePc(u) ELSE pc[u]]
    /\ UNCHANGED <<draft, push_block, capacity_limit, active, deque, mutex,
                   consumer, call, ret, item, dropped, num, closeDone, ub>>
    /\ UNCHANGED svars

\* close(): _consumer.notify_all(), and the return
CloseNotifyConsumers(t) ==
    /\ ~ub
    /\ pc[t] = "notify_consumer"
    /\ consumer' = {}
    /\ pc' = [u \in Threads |->
                IF u = t THEN "idle"
                ELSE IF u \in consumer THEN WakePc(u) ELSE pc[u]]
    /\ call' = [call EXCEPT ![t] = Returned(call[t])]
    /\ closeDone' = TRUE
    /\ UNCHANGED <<draft, push_block, capacity_limit, active, deque, mutex,
                   producer, ret, item, dropped, num, ub>>
    /\ UNCHANGED svars

Next ==
    \E t \in Threads :
        \/ Call(t)
        \/ Timeout(t)
        \/ SpuriousWakeup(t)
        \/ Push(t)
        \/ Pop(t)
        \/ PopBackWait(t)
        \/ PopBackRest(t)
        \/ Size(t)
        \/ Capacity(t)
        \/ Empty(t)
        \/ Full(t)
        \/ FrontBack(t)
        \/ Clear(t)
        \/ Close(t)
        \/ CloseNotifyProducers(t)
        \/ CloseNotifyConsumers(t)

Spec == Init /\ [][Next]_vars

\* a step of a call in progress: a thread that can run does run, and the
\* timer of a wait_for does run out; nothing makes a thread call anything,
\* and nothing makes a condition variable wake a waiter unnotified
Progress(t) ==
    \/ Timeout(t)
    \/ Push(t)
    \/ Pop(t)
    \/ PopBackWait(t)
    \/ PopBackRest(t)
    \/ Size(t)
    \/ Capacity(t)
    \/ Empty(t)
    \/ Full(t)
    \/ FrontBack(t)
    \/ Clear(t)
    \/ Close(t)
    \/ CloseNotifyProducers(t)
    \/ CloseNotifyConsumers(t)

FairSpec == Spec /\ \A t \in Threads : WF_vars(Progress(t))

\* a queue constructed in blocking mode with a capacity N > 0
BlockingStart ==
    /\ Init
    /\ push_block = TRUE
    /\ capacity_limit /= 0

\* the blocking bounded queue under the fair scheduler
BlockingFairSpec ==
    BlockingStart /\ [][Next]_vars /\ \A t \in Threads : WF_vars(Progress(t))

----------------------------------------------------------------------------
(***************************************************************************)
(* Singleton<T>::get_instance(args): std::call_once(init_flag_, init,      *)
(* args), then return *instance_.  init builds the object and registers    *)
(* destroy with std::atexit; std::exit runs destroy.  Threads other than   *)
(* the one that exits keep running until the process has ended, and        *)
(* functions that run during std::exit (other handlers, destructors of     *)
(* static objects) may call get_instance as well.  T's constructor is      *)
(* taken not to throw.                                                     *)
(***************************************************************************)
\* the arguments a call may pass
Args == Values

\* a thread calls get_instance(a)
get_instance(t) ==
    /\ process /= "exited"
    /\ spc[t] = "idle"
    /\ \E a \in Args : sarg' = [sarg EXCEPT ![t] = a]
    /\ spc' = [spc EXCEPT ![t] = "call_once"]
    /\ sref' = [sref EXCEPT ![t] = 0]
    /\ UNCHANGED <<instance_, init_flag_, objects, deleted, handlers, process,
                   sub>>
    /\ UNCHANGED vars

\* std::call_once(init_flag_, ...): the first caller runs the function, a
\* caller that finds it running waits, a caller that finds it done goes on
call_once(t) ==
    /\ process /= "exited"
    /\ spc[t] = "call_once"
    /\ init_flag_ /= "running"
    /\ IF init_flag_ = "unset"
       THEN /\ init_flag_' = "running"
            /\ spc' = [spc EXCEPT ![t] = "init"]
       ELSE /\ spc' = [spc EXCEPT ![t] = "return"]
            /\ UNCHANGED init_flag_
    /\ UNCHANGED <<instance_, objects, deleted, handlers, process, sarg, sref,
                   sub>>
    /\ UNCHANGED vars

\* init(args), and the end of call_once
init(t) ==
    /\ process /= "exited"
    /\ spc[t] = "init"
    /\ IF instance_ /= 0
       THEN UNCHANGED <<instance_, objects, handlers>>
       ELSE /\ objects' = Append(objects, sarg[t])
            /\ instance_' = Len(objects) + 1
            /\ handlers' = handlers + 1
    /\ init_flag_' = "done"
    /\ spc' = [spc EXCEPT ![t] = "return"]
    /\ UNCHANGED <<deleted, process, sarg, sref, sub>>
    /\ UNCHANGED vars

\* return *instance_;
Return(t) ==
    /\ process /= "exited"
    /\ spc[t] = "return"
    /\ IF instance_ = 0
       THEN /\ sub' = TRUE
            /\ sref' = [sref EXCEPT ![t] = 0]
       ELSE /\ sref' = [sref EXCEPT ![t] = instance_]
            /\ UNCHANGED sub
    /\ spc' = [spc EXCEPT ![t] = "idle"]
    /\ UNCHANGED <<instance_, init_flag_, objects, deleted, handlers, process,
                   sarg>>
    /\ UNCHANGED vars

\* main returns, or a thread calls std::exit
Exit(t) ==
    /\ process = "running"
    /\ spc[t] = "idle"
    /\ process' = "exiting"
    /\ UNCHANGED <<instance_, init_flag_, objects, deleted, handlers, spc, sarg,
                   sref, sub>>
    /\ UNCHANGED vars

\* destroy(), run by std::exit: delete instance_;
DestroyDelete ==
    /\ process = "exiting"
    /\ handlers > 0
    /\ deleted' = IF instance_ = 0 THEN deleted ELSE Append(deleted, instance_)
    /\ process' = "destroying"
    /\ UNCHANGED <<instance_, init_flag_, objects, handlers, spc, sarg, sref,
                   sub>>
    /\ UNCHANGED vars

\* destroy(), run by std::exit: instance_ = nullptr;
DestroyReset ==
    /\ process = "destroying"
    /\ instance_' = 0
    /\ handlers' = handlers - 1
    /\ process' = "exiting"
    /\ UNCHANGED <<init_flag_, objects, deleted, spc, sarg, sref, sub>>
    /\ UNCHANGED vars

\* std::exit has run every handler: the process ends
Terminate ==
    /\ process = "exiting"
    /\ handlers = 0
    /\ process' = "exited"
    /\ UNCHANGED <<instance_, init_flag_, objects, deleted, handlers, spc, sarg,
                   sref, sub>>
    /\ UNCHANGED vars

SingletonNext ==
    \/ \E t \in Threads :
        \/ get_instance(t)
        \/ call_once(t)
        \/ init(t)
        \/ Return(t)
        \/ Exit(t)
    \/ DestroyDelete
    \/ DestroyReset
    \/ Terminate

\* program start, in a program that constructs one queue and does not use it
SingletonStart ==
    /\ Init
    /\ draft = "blocking_queue"
    /\ push_block = TRUE
    /\ capacity_limit = 0

SingletonSpec == SingletonStart /\ [][SingletonNext]_<<vars, svars>>

----------------------------------------------------------------------------
\* a call of thread t has returned
Done(t) == pc[t] = "idle" /\ call[t].op /= "none"

\* thread t, not suspended, runs a step of its call
Steps(t) == pc[t] \notin {"idle", "waiting"} /\ pc'[t] /= pc[t]

\* thread t returns from its call in this step
Returns(t) == pc[t] /= "idle" /\ pc'[t] = "idle"

\* C1: with a capacity N > 0, in both modes and under every interleaving of
\* pushes, pops, clear and close, the buffer holds at most N elements in
\* every state in which no thread holds the mutex.
C1_CapacityBound ==
    (capacity_limit /= 0 /\ mutex = 0) => Len(deque) <= capacity_limit

\* C1 witness: the buffer is at its limit after a push has returned, in
\* blocking mode with a producer suspended, or in non-blocking mode.
C1_Witness ==
    /\ capacity_limit = MaxCap
    /\ Len(deque) = capacity_limit
    /\ mutex = 0
    /\ \E t \in Threads : Done(t) /\ call[t].op \in PushOps /\ ret[t]
    /\ push_block => producer /= {}

\* C2: once close has set active to false the buffer is empty in every
\* later state, whatever is called afterwards.
C2_ClosedStaysEmpty == (~active) => deque = <<>>

\* C3: a push or pop called after close has returned fails: its first step
\* is its return, the value returned is false, and the buffer is left as
\* it was (no wait on a condition, no insertion, no removal).
C3_AfterCloseFails ==
    [][\A t \in Threads :
        (/\ call[t].afterClose
         /\ call[t].op \in PushOps \cup PopOps
         /\ pc[t] /= "idle"
         /\ pc'[t] /= pc[t])
        => (Returns(t) /\ ret'[t] = FALSE /\ deque' = deque)]_vars

\* C4: a thread suspended in a push or in a pop when close runs is
\* eventually woken and returns failure; none stays blocked after close.
C4_CloseWakesAll ==
    \A t \in Threads :
        (pc[t] = "waiting" /\ ~active) ~> (Done(t) /\ ret[t] = FALSE)

\* an untimed push_back that is suspended, or woken and not yet run again
PushSuspended(t) ==
    /\ pc[t] \in {"waiting", "notified"}
    /\ call[t].op = "push_back"
    /\ call[t].timeout = 0

\* a pop of another thread has returned an element
PopReturned(t) ==
    \E u \in Threads \ {t} : Done(u) /\ call[u].op \in PopOps /\ ret[u]

\* C5: in blocking mode with capacity N > 0, a push_back with timeout 0
\* that found the queue full inserts and returns success once a pop has
\* brought the size below N and the queue stays open.  Stated in its
\* weakest reading: the push completes, or the queue is closed, or the
\* room is taken again.
C5_BlockedPushCompletes ==
    \A t \in Threads :
        (/\ PushSuspended(t)
         /\ PopReturned(t)
         /\ active
         /\ Len(deque) < capacity_limit)
        ~> (\/ Done(t) /\ ret[t]
            \/ ~active
            \/ Len(deque) >= capacity_limit)

\* C6: in blocking mode a timed push whose wait has run out while the
\* queue is open and still full returns failure and leaves the buffer as
\* it was: its element is not inserted.
C6_TimedPushFails ==
    [][\A t \in Threads :
        (/\ Steps(t)
         /\ call[t].op \in PushOps
         /\ call[t].expired
         /\ push_block /\ active
         /\ capacity_limit /= 0 /\ Len(deque) >= capacity_limit)
        => (Returns(t) /\ ret'[t] = FALSE /\ deque' = deque)]_vars

\* C6 witness: a timed push has returned failure after its timer ran out,
\* with the queue open and full.
C6_Witness ==
    \E t \in Threads :
        /\ Done(t) /\ call[t].op \in PushOps /\ call[t].expired
        /\ ret[t] = FALSE
        /\ push_block /\ active
        /\ capacity_limit /= 0 /\ Len(deque) = capacity_limit

\* C7: a pop returns success only if the queue is open and the buffer is
\* non-empty when it removes; it delivers the front (pop_front) or the back
\* (pop_back) element and removes exactly that element, for timeout 0 and
\* for a nonzero timeout alike.
C7_PopRemovesBoundary ==
    [][\A t \in Threads :
        (Returns(t) /\ call[t].op \in PopOps /\ ret'[t] = TRUE)
        => /\ active
           /\ deque /= <<>>
           /\ IF call[t].op = "pop_front"
              THEN item'[t] = Head(deque) /\ deque' = Tail(deque)
              ELSE /\ item'[t] = deque[Len(deque)]
                   /\ deque' = SubSeq(deque, 1, Len(deque) - 1)]_vars

\* C8: a pop with a nonzero timeout whose wait ends with the queue open
\* and the buffer empty returns failure and leaves the buffer unchanged.
C8_TimedPopFails ==
    [][\A t \in Threads :
        (/\ Steps(t)
         /\ call[t].op \in PopOps
         /\ call[t].timeout /= 0
         /\ pc'[t] /= "waiting"
         /\ active /\ deque = <<>>)
        => (Returns(t) /\ ret'[t] = FALSE /\ deque' = deque /\ ~ub')]_vars

\* a push_back call of element v
PushBackOf(v) == [NoCall EXCEPT !.op = "push_back", !.elem = v]

\* C9: in non-blocking mode with capacity N > 0 a push_back on an open
\* queue that holds N elements removes the front element only and appends
\* at the back; push_front removes the back element only and inserts at
\* the front; the size stays N and the other elements keep their order.
\* With capacity 2, push_back 1, 2, 3 leaves <<2, 3>>.
C9_Eviction ==
    /\ []((capacity_limit = 2 /\ ~push_block) =>
            \A r1, r2, r3 \in Refs :
                Inserted(PushBackOf(3), r3,
                    Inserted(PushBackOf(2), r2,
                        Inserted(PushBackOf(1), r1, <<>>))) = <<2, 3>>)
    /\ [][\A t \in Threads :
            (/\ Returns(t)
             /\ call[t].op \in PushOps
             /\ ~push_block /\ active
             /\ capacity_limit /= 0 /\ Len(deque) = capacity_limit)
            => /\ dropped'[t] = 1
               /\ IF call[t].op = "push_back"
                  THEN deque' = Append(Tail(deque), call[t].elem)
                  ELSE deque' = <<call[t].elem>>
                                  \o SubSeq(deque, 1, Len(deque) - 1)]_vars

\* C9 witness: a non-blocking push on an open full queue of capacity 2 has
\* returned after evicting one element.
C9_Witness ==
    \E t \in Threads :
        /\ Done(t) /\ call[t].op \in PushOps /\ dropped[t] = 1
        /\ ~push_block /\ active
        /\ capacity_limit = 2 /\ Len(deque) = 2

\* only thread t has ever called anything
SingleThreaded(t) == \A u \in Threads \ {t} : call[u] = NoCall

\* C10: with capacity 0 in non-blocking mode, a single thread's pushes and
\* pops on an open queue act as on an ordinary unbounded deque: a push
\* adds its element at its end and discards nothing, a pop on a non-empty
\* buffer returns at once with the element at its end and removes it.
C10_UnboundedDeque ==
    [][\A t \in Threads :
        (/\ Steps(t)
         /\ SingleThreaded(t)
         /\ capacity_limit = 0 /\ ~push_block /\ active)
        => /\ call[t].op = "push_back" =>
                /\ Returns(t) /\ dropped'[t] = 0
                /\ deque' = Append(deque, call[t].elem)
           /\ call[t].op = "push_front" =>
                /\ Returns(t) /\ dropped'[t] = 0
                /\ deque' = <<call[t].elem>> \o deque
           /\ (call[t].op = "pop_front" /\ deque /= <<>>) =>
                /\ Returns(t) /\ ret'[t] = TRUE
                /\ item'[t] = Head(deque) /\ deque' = Tail(deque)
           /\ (call[t].op = "pop_back" /\ deque /= <<>>) =>
                /\ pc'[t] \in {"idle", "unlocked_rest"}
                /\ Returns(t) =>
                     /\ ret'[t] = TRUE
                     /\ item'[t] = deque[Len(deque)]
                     /\ deque' = SubSeq(deque, 1, Len(deque) - 1)]_vars

\* the buffer d with the element of push c added at its end
Added(c, d) ==
    IF c.op = "push_back" THEN Append(d, c.elem) ELSE <<c.elem>> \o d

\* the element pop c takes from the non-empty buffer d, and what it leaves
Taken(c, d) == IF c.op = "pop_front" THEN Head(d) ELSE d[Len(d)]
Left(c, d) ==
    IF c.op = "pop_front" THEN Tail(d) ELSE SubSeq(d, 1, Len(d) - 1)

\* C11: in blocking mode with capacity N > 0 and apart from Clear and Close,
\* elements are conserved step by step: a push that returns success has
\* added exactly its element, a push that returns failure has added nothing,
\* a pop that returns success delivers an element that was in the buffer and
\* removes that one element only, and nothing else changes the buffer; so
\* every element pushed with success is in the buffer or was delivered
\* once, and no element of a failed push is delivered.
C11_NoDuplicationNoLoss ==
    [][(push_block /\ capacity_limit /= 0 /\ active)
        => /\ \A t \in Threads :
                (Returns(t) /\ call[t].op \in PushOps)
                => IF ret'[t] THEN deque' = Added(call[t], deque)
                   ELSE deque' = deque
           /\ \A t \in Threads :
                (Returns(t) /\ call[t].op \in PopOps)
                => IF ret'[t]
                   THEN /\ deque /= <<>>
                        /\ item'[t] = Taken(call[t], deque)
                        /\ deque' = Left(call[t], deque)
                   ELSE deque' = deque
           /\ deque' /= deque
                => \E t \in Threads :
                     /\ pc[t] /= "idle"
                     /\ call[t].op \in PushOps \cup PopOps \cup {"clear", "close"}
                     /\ pc'[t] /= pc[t]]_vars

\* C12: Clear on an open queue terminates: its critical section ends with
\* the buffer empty, active unchanged and the mutex free again; and Size,
\* Capacity, Empty, Full, Front and Back each return with the mutex free and
\* the buffer and active unchanged: none keeps the mutex forever.
C12_ClearTerminates ==
    [][\A t \in Threads :
        (Steps(t) /\ active /\ call[t].op \in {"clear"} \cup ReadOps)
        => /\ Returns(t)
           /\ mutex' = 0
           /\ active' = active
           /\ deque' = IF call[t].op = "clear" THEN <<>> ELSE deque]_vars

\* C13: a push_front on an open queue that inserts its element returns
\* true, for both overloads and in both modes.
C13_PushFrontReturnsTrue ==
    [][\A t \in Threads :
        (/\ Returns(t)
         /\ call[t].op = "push_front"
         /\ active
         /\ deque' /= deque)
        => ret'[t] = TRUE]_vars

\* C14: close is idempotent: the critical section of a close that runs on
\* a queue already closed, whatever was called in between and whatever is
\* in flight, leaves the buffer and active exactly as they were.
C14_CloseIdempotent ==
    [][\A t \in Threads :
        (Steps(t) /\ call[t].op = "close" /\ ~active)
        => (deque' = deque /\ active' = active)]_vars

\* C15: the queue goes one way, open to closed: active is true after
\* construction, only the critical section of close (or of the destructor)
\* makes it false, and no step ever makes it true again.
C15_OneWayClose ==
    /\ active = TRUE
    /\ [][/\ active' => active
          /\ (active /\ ~active')
                => \E t \in Threads :
                     /\ call[t].op = "close"
                     /\ pc[t] \in {"entry", "notified"}
                     /\ pc'[t] = "notify_producer"]_vars

\* C15 witness: the queue is still closed after a close has returned and
\* an operation called after it has returned too.
C15_Witness ==
    /\ ~active
    /\ closeDone
    /\ \E t \in Threads :
         Done(t) /\ call[t].afterClose /\ call[t].op \in PushOps \cup PopOps

\* C16: front or back on an empty queue ends in a checked failure: it
\* never executes front() / back() of the empty std::deque.
C16_FrontBackChecked ==
    [][\A t \in Threads :
        (Steps(t) /\ call[t].op \in {"front", "back"} /\ deque = <<>>)
        => ~ub']_vars

\* the step thread t takes next reads or writes _dequeue or _active: every
\* step of a call but those of capacity and the notify_all calls of close
Accesses(t) ==
    /\ call[t].op /= "capacity"
    /\ pc[t] \notin {"notify_producer", "notify_consumer"}

\* C17: every step of an operation that reads or writes the buffer or the
\* active flag is a critical section: the thread takes the free mutex at
\* its start, so no two threads are in the buffer at once.
C17_AccessUnderLock ==
    [][\A t \in Threads :
        (Steps(t) /\ Accesses(t))
        => (pc[t] \in {"entry", "notified"} /\ mutex = 0)]_vars

\* C18: in non-blocking mode the critical section of a push never suspends
\* on a condition: in one step it evicts if needed, inserts its element at
\* its end of the buffer, wakes one suspended consumer if there is one, and
\* returns; on an open queue it returns true.
C18_NonBlockingPushNeverWaits ==
    [][\A t \in Threads :
        (Steps(t) /\ call[t].op \in PushOps /\ ~push_block)
        => /\ Returns(t)
           /\ t \notin producer'
           /\ deque' /= <<>>
           /\ IF call[t].op = "push_back"
              THEN deque'[Len(deque')] = call[t].elem
              ELSE Head(deque') = call[t].elem
           /\ consumer' \subseteq consumer
           /\ Cardinality(consumer \ consumer')
                 = (IF consumer = {} THEN 0 ELSE 1)
           /\ active => ret'[t] = TRUE]_vars

\* an untimed pop that is suspended, or woken and not yet run again
PopSuspended(t) ==
    /\ pc[t] \in {"waiting", "notified", "unlocked"}
    /\ call[t].op \in PopOps
    /\ call[t].timeout = 0

\* C19: an untimed pop suspended on an empty open queue returns success
\* after a push has inserted an element, if the queue stays open and no
\* other consumer (nor Clear) removes the element first.  Stated in its
\* weakest reading: from a state with the pop suspended and an element in
\* the open buffer, the pop returns success, or the queue is closed, or the
\* buffer is empty again.
C19_BlockedPopCompletes ==
    \A t \in Threads :
        (PopSuspended(t) /\ active /\ deque /= <<>>)
        ~> (\/ Done(t) /\ ret[t]
            \/ ~active
            \/ deque = <<>>)

\* C20: a pop called with a nonzero timeout on an open, non-empty queue
\* returns success with the boundary element in its first critical section,
\* without suspending: the timed wait tests the condition of the untimed
\* one.
C20_TimedPopReturnsAtOnce ==
    [][\A t \in Threads :
        (/\ Steps(t)
         /\ pc[t] \in {"entry", "unlocked"}
         /\ call[t].op \in PopOps
         /\ call[t].timeout /= 0
         /\ active /\ deque /= <<>>)
        => /\ pc'[t] /= "waiting"
           /\ Returns(t) =>
                /\ ret'[t] = TRUE
                /\ item'[t] = Taken(call[t], deque)
                /\ deque' = Left(call[t], deque)
           /\ PopPredicate(call[t])
                = PopPredicate([call[t] EXCEPT !.timeout = 0])]_vars

\* a producer suspended on _producer in an untimed push
ProducerSuspended(t) ==
    /\ pc[t] = "waiting"
    /\ call[t].op \in PushOps
    /\ call[t].timeout = 0

\* C21: no missed wakeup for producers: in blocking mode with capacity
\* N > 0, a producer suspended in an untimed push while the queue is open
\* and holds fewer than N elements (a pop or Clear has made room) is
\* eventually woken.  Stated in its weakest reading: the producer leaves
\* its wait, or the queue is closed, or the room is taken again.
C21_NoMissedWakeup ==
    \A t \in Threads :
        (/\ ProducerSuspended(t)
         /\ push_block /\ active
         /\ capacity_limit /= 0 /\ Len(deque) < capacity_limit)
        ~> (\/ pc[t] /= "waiting"
            \/ ~active
            \/ Len(deque) >= capacity_limit)

\* C22: a timed push or pop fails for its timeout only if its condition
\* is still false when the wait ends: a call whose timer has run out and
\* that finds the queue open with room (a push in blocking mode) or with an
\* element (a pop) completes and returns success.
C22_TimeoutOnlyIfConditionFalse ==
    [][\A t \in Threads :
        (Steps(t) /\ call[t].expired /\ active)
        => /\ (/\ call[t].op \in PushOps
               /\ push_block
               /\ (capacity_limit = 0 \/ Len(deque) < capacity_limit))
              => /\ Returns(t)
                 /\ ret'[t] = TRUE
                 /\ deque' = Added(call[t], deque)
           /\ (call[t].op \in PopOps /\ deque /= <<>>)
              => /\ pc'[t] \in {"idle", "unlocked_rest"}
                 /\ Returns(t) =>
                      /\ ret'[t] = TRUE
                      /\ item'[t] = Taken(call[t], deque)
                      /\ deque' = Left(call[t], deque)]_vars

\* C23: full() returns true exactly when the queue is bounded and at its
\* limit (capacity /= 0 and size >= capacity), which on an open queue is
\* exactly when a blocking push would have to wait; with capacity 0 it
\* never returns true.
C23_FullMeansAtLimit ==
    [][\A t \in Threads :
        (Returns(t) /\ call[t].op = "full")
        => /\ ret'[t] = (capacity_limit /= 0 /\ Len(deque) >= capacity_limit)
           /\ active => (ret'[t] = ~PushPredicate)]_vars

\* object number i has been deleted
Deleted(i) == \E k \in 1..Len(deleted) : deleted[k] = i

\* C24: under concurrent get_instance calls T is constructed exactly once,
\* by the call that runs init and with that call's argument; every call
\* returns a reference to that one object, which exists when the call
\* returns; and when the process has ended the object has been deleted
\* exactly once, by the handler registered with atexit.
C24_SingleInstance ==
    /\ [](Len(objects) <= 1)
    /\ [](process = "exited" => (objects /= <<>> => deleted = <<1>>))
    /\ [][\A t \in Threads :
            /\ (spc[t] = "init" /\ spc'[t] = "return")
                => objects' = <<sarg[t]>>
            /\ (spc[t] = "return" /\ spc'[t] = "idle")
                => /\ ~sub'
                   /\ sref'[t] = 1
                   /\ Len(objects) = 1
                   /\ ~Deleted(1)]_svars

TypeOK ==
    /\ draft \in Drafts
    /\ push_block \in BOOLEAN
    /\ capacity_limit \in 0..MaxCap
    /\ active \in BOOLEAN
    /\ deque \in Seq(Values)
    /\ mutex \in 0..NumThreads
    /\ producer \subseteq Threads
    /\ consumer \subseteq Threads
    /\ ret \in [Threads -> BOOLEAN]
    /\ item \in [Threads -> 0..MaxVal]
    /\ num \in [Threads -> 0..MaxLen]
    /\ instance_ \in 0..1
    /\ init_flag_ \in {"unset", "running", "done"}
    /\ handlers \in 0..1
    /\ process \in {"running", "exiting", "destroying", "exited"}
    /\ sref \in [Threads -> 0..1]
====
